---------------------------- MODULE Spec2Model ----------------------------
(***************************************************************************)
(* SecureAI: the configuration dashboard's masking preview and role        *)
(* policy editor, the chat client's role lookup, and the protection core   *)
(* (format-preserving cipher, role resolver, protection cycle).            *)
(*                                                                         *)
(* Strings are sequences of one-character strings, so that length,         *)
(* position and character class are what the operators compute with.       *)
(***************************************************************************)
EXTENDS Integers, Sequences, FiniteSets, TLC

VARIABLES
    \* configuration dashboard, one masking strategy card
    entity,            \* the key of config.maskingStrategies the card shows
    pattern,           \* config.maskingStrategies[entity].pattern
    preview,           \* the "Masked:" text the card renders for pattern
    \* configuration dashboard, role policy
    roleBasedAccess,   \* config.roleBasedAccess
    backendRoles,      \* roleBasedAccess of the configuration GET /api/config returns
    edits,             \* edits of the role policy made so far
    unsavedEdit,       \* the last edit made since the last save or reset
    resolved,          \* the resolver's last answer under roleBasedAccess
    \* core, one key epoch of the cipher
    cipherKey,         \* the key of the epoch
    encCount,          \* encryptFPE calls made so far
    encLast,           \* the last call: its input, its output, the output decrypted
    probe,             \* an input whose first output is kept
    probeOut,          \* the output of the first call with the probe
    between,           \* a call with another input followed that first call
    \* core, one protection cycle of the orchestrator
    stage,             \* the state of the cycle
    failedAt,          \* the state the cycle failed in, "NONE" while it has not
    request,           \* the request: its tokens, the PII ones with their type
    requestRole,       \* the role of the requesting user
    cipherKeys,        \* the key of each entity type's domain, NoKey if missing
    entities,          \* the entities the detector returned
    protectedText,     \* the text being protected, token by token
    mapping,           \* protected value -> original value, one entry per entity
    external,          \* the texts sent to the external LLM
    response,          \* the response of the LLM
    matched,           \* the mapping entries matched at each response token
    final,             \* the text delivered to the user
    audit,             \* the audit records emitted
    \* chat client, SSO: ssoService over the browser's localStorage
    storage,           \* localStorage: the item under each key, NoItem if none
    calls,             \* the exchangeCodeForToken calls, each with where it stands
    tokenRequests,     \* the requests the token endpoint was sent
    logins,            \* generateAuthUrl calls made so far
    \* chat client, chat store: ChatProvider's state and the useChat calls
    messages,          \* state.messages
    isLoading,         \* state.isLoading
    status,            \* state.status
    sends,             \* the useChat.sendMessage calls, each with where it stands
    \* chat client, login: the browser's localStorage and the chat request
    localStore,        \* auth_token, user_info, user_role, username
    selector,          \* RoleSelector's selectedRole and username
    chatRequest,       \* the body of the last POST chatService.sendMessage made
    \* configuration dashboard, the masking of one value
    maskInput,         \* the value, its entity and the pattern
    maskOutput,        \* the masked text, NotMasked before the masking ran
    \* chat client, chat history
    storedHistory,     \* localStorage: the history chatHistoryService keeps
    chatHistory,       \* Layout's chatHistory state
    lastCall           \* the last history operation and its session id

maskVars == <<entity, pattern, preview>>
roleVars == <<roleBasedAccess, backendRoles, edits, unsavedEdit, resolved>>
fpeVars == <<cipherKey, encCount, encLast, probe, probeOut, between>>
cycleVars ==
    <<stage, failedAt, request, requestRole, cipherKeys, entities, protectedText, mapping,
      external, response, matched, final, audit>>
ssoVars == <<storage, calls, tokenRequests, logins>>
chatVars == <<messages, isLoading, status, sends>>
loginVars == <<localStore, selector, chatRequest>>
fnVars == <<maskInput, maskOutput>>
historyVars == <<storedHistory, chatHistory, lastCall>>
appVars == <<chatVars, loginVars, fnVars, historyVars>>
coreVars == <<maskVars, roleVars, fpeVars, cycleVars, ssoVars>>
vars == <<maskVars, roleVars, fpeVars, cycleVars, ssoVars, appVars>>

----------------------------------------------------------------------------
(* Characters and JavaScript string primitives *)

Digits == <<"0", "1", "2", "3", "4", "5", "6", "7", "8", "9">>

IsDigit(c) == \E i \in 1..Len(Digits) : Digits[i] = c

Min(a, b) == IF a < b THEN a ELSE b

Max(a, b) == IF a > b THEN a ELSE b

\* String.prototype.repeat for a one-character string and a count >= 0
Repeat(c, n) == [i \in 1..n |-> c]

\* an index argument of substring: below 0 counts as 0, above the length as
\* the length
Clamp(i, n) == IF i < 0 THEN 0 ELSE IF i > n THEN n ELSE i

\* String.prototype.substring(a, b): both ends clamped, swapped when a > b
Substring(s, a, b) ==
    LET x == Clamp(a, Len(s))
        y == Clamp(b, Len(s))
    IN  SubSeq(s, Min(x, y) + 1, Max(x, y))

\* String.prototype.substring(a)
SubstringFrom(s, a) == Substring(s, a, Len(s))

\* x || d for a number x: 0 is falsy
OrDefault(x, d) == IF x = 0 THEN d ELSE x

\* the number of occurrences of c in s
RECURSIVE Count(_, _)
Count(s, c) ==
    IF s = <<>> THEN 0
    ELSE (IF Head(s) = c THEN 1 ELSE 0) + Count(Tail(s), c)

\* the position of the first c in s (s holds one)
IndexOf(s, c) == CHOOSE i \in 1..Len(s) : s[i] = c /\ \A j \in 1..(i - 1) : s[j] # c

----------------------------------------------------------------------------
(* Configuration dashboard: defaultConfig.maskingStrategies *)

StrategyEntities ==
    {"PERSON", "EMAIL", "PHONE", "SSN", "CREDIT_CARD", "DATE_OF_BIRTH", "ADDRESS"}

PatternTypes == {"show_first", "show_last", "show_first_last", "full_mask", "custom"}

MkPattern(t, f, l, m, p) ==
    [type |-> t, showFirst |-> f, showLast |-> l, maskChar |-> m, preserveFormat |-> p]

DefaultPattern(e) ==
    CASE e = "PERSON"        -> MkPattern("show_first", 1, 0, "*", FALSE)
      [] e = "EMAIL"         -> MkPattern("custom", 1, 0, "*", TRUE)
      [] e = "PHONE"         -> MkPattern("show_last", 0, 4, "*", TRUE)
      [] e = "SSN"           -> MkPattern("show_last", 0, 4, "*", TRUE)
      [] e = "CREDIT_CARD"   -> MkPattern("show_first_last", 4, 4, "*", TRUE)
      [] e = "DATE_OF_BIRTH" -> MkPattern("show_last", 0, 4, "*", TRUE)
      [] e = "ADDRESS"       -> MkPattern("show_last", 0, 15, "*", FALSE)

----------------------------------------------------------------------------
(* Configuration dashboard: the Live Preview of a masking strategy *)

CreditCardSample ==
    <<"4", "5", "3", "2", "-", "1", "2", "3", "4", "-", "5", "6", "7", "8", "-",
      "9", "0", "1", "2">>

SsnSample == <<"1", "2", "3", "-", "4", "5", "-", "6", "7", "8", "9">>

PhoneSample == <<"5", "5", "5", "-", "1", "2", "3", "-", "4", "5", "6", "7">>

EmailSample ==
    <<"j", "o", "h", "n", ".", "d", "o", "e", "@", "c", "o", "m", "p", "a", "n",
      "y", ".", "c", "o", "m">>

PersonSample == <<"J", "o", "h", "n", " ", "S", "m", "i", "t", "h">>

DobSample == <<"0", "1", "/", "1", "5", "/", "1", "9", "8", "5">>

AddressSample ==
    <<"1", "2", "3", " ", "M", "a", "i", "n", " ", "S", "t", "r", "e", "e", "t",
      ",", " ", "N", "e", "w", " ", "Y", "o", "r", "k", ",", " ", "N", "Y">>

SampleText == <<"S", "a", "m", "p", "l", "e", " ", "T", "e", "x", "t">>

\* samples[entity] || 'Sample Text'
Sample(e) ==
    CASE e = "CREDIT_CARD"   -> CreditCardSample
      [] e = "SSN"           -> SsnSample
      [] e = "PHONE"         -> PhoneSample
      [] e = "EMAIL"         -> EmailSample
      [] e = "PERSON"        -> PersonSample
      [] e = "DATE_OF_BIRTH" -> DobSample
      [] e = "ADDRESS"       -> AddressSample
      [] OTHER               -> SampleText

\* the characters /[-\s()\/]/ removes and the restore walk copies
FormatChars == {"-", " ", "(", ")", "/"}

NotFormatChar(c) == c \notin FormatChars

\* text.replace(/[-\s()\/]/g, '')
StripFormat(s) == SelectSeq(s, NotFormatChar)

\* a custom EMAIL branch that masks a text without exactly one '@' in full
MaskEmailFailClosed(text, p) ==
    IF Count(text, "@") = 1
    THEN LET at == IndexOf(text, "@")
             localPart == SubSeq(text, 1, at - 1)
             domain == SubSeq(text, at + 1, Len(text))
             showFirst == OrDefault(p.showFirst, 1)
         IN  Substring(localPart, 0, showFirst)
               \o Repeat(p.maskChar, Max(0, Len(localPart) - showFirst))
               \o <<"@">> \o domain
    ELSE Repeat(p.maskChar, Len(text))

\* the branch of the preview for type 'custom' on EMAIL
MaskEmail(text, p) ==
    IF Count(text, "@") = 1
    THEN LET at == IndexOf(text, "@")
             localPart == SubSeq(text, 1, at - 1)
             domain == SubSeq(text, at + 1, Len(text))
             showFirst == OrDefault(p.showFirst, 1)
         IN  Substring(localPart, 0, showFirst)
               \o Repeat(p.maskChar, Max(0, Len(localPart) - showFirst))
               \o <<"@">> \o domain
    ELSE text

\* an if / else-if chain whose last else shows the text
MaskTextFailOpen(text, e, p) ==
    LET textLen == Len(text)
        showFirst == OrDefault(p.showFirst, 0)
        showLast == OrDefault(p.showLast, 0)
    IN  CASE p.type = "full_mask" -> Repeat(p.maskChar, textLen)
          [] p.type = "show_first" ->
                IF textLen <= showFirst THEN text
                ELSE Substring(text, 0, showFirst)
                       \o Repeat(p.maskChar, textLen - showFirst)
          [] p.type = "show_last" ->
                IF textLen <= showLast THEN text
                ELSE Repeat(p.maskChar, textLen - showLast)
                       \o SubstringFrom(text, textLen - showLast)
          [] p.type = "show_first_last" ->
                IF textLen <= showFirst + showLast THEN text
                ELSE Substring(text, 0, showFirst)
                       \o Repeat(p.maskChar, textLen - showFirst - showLast)
                       \o SubstringFrom(text, textLen - showLast)
          [] p.type = "custom" /\ e = "EMAIL" -> MaskEmail(text, p)
          [] OTHER -> text

\* the if / else-if chain of the preview over the text being masked
MaskText(text, e, p) ==
    LET textLen == Len(text)
        showFirst == OrDefault(p.showFirst, 0)
        showLast == OrDefault(p.showLast, 0)
    IN  CASE p.type = "full_mask" -> Repeat(p.maskChar, textLen)
          [] p.type = "show_first" ->
                IF textLen <= showFirst THEN text
                ELSE Substring(text, 0, showFirst)
                       \o Repeat(p.maskChar, textLen - showFirst)
          [] p.type = "show_last" ->
                IF textLen <= showLast THEN text
                ELSE Repeat(p.maskChar, textLen - showLast)
                       \o SubstringFrom(text, textLen - showLast)
          [] p.type = "show_first_last" ->
                IF textLen <= showFirst + showLast THEN text
                ELSE Substring(text, 0, showFirst)
                       \o Repeat(p.maskChar, textLen - showFirst - showLast)
                       \o SubstringFrom(text, textLen - showLast)
          [] p.type = "custom" /\ e = "EMAIL" -> MaskEmail(text, p)
          [] OTHER -> Repeat(p.maskChar, textLen)

\* the walk over the sample that copies format characters and takes the
\* other characters from masked while any are left
RECURSIVE RestoreFormat(_, _)
RestoreFormat(sample, masked) ==
    IF sample = <<>> THEN <<>>
    ELSE IF Head(sample) \in FormatChars
         THEN <<Head(sample)>> \o RestoreFormat(Tail(sample), masked)
         ELSE IF masked # <<>>
              THEN <<Head(masked)>> \o RestoreFormat(Tail(sample), Tail(masked))
              ELSE RestoreFormat(Tail(sample), masked)

\* the preview's computation for a value: strip when the format is not
\* preserved, mask, restore the format when it is preserved and the text
\* differs from the value
MaskValue(sample, e, p) ==
    LET text == IF ~p.preserveFormat THEN StripFormat(sample) ELSE sample
        masked == MaskText(text, e, p)
    IN  IF p.preserveFormat /\ text # sample
        THEN RestoreFormat(sample, masked)
        ELSE masked

\* what the card of an entity renders as "Masked:"
LivePreview(e, p) == MaskValue(Sample(e), e, p)

----------------------------------------------------------------------------
(* Configuration dashboard: defaultConfig.roleBasedAccess and its editor *)

Roles == {"doctor", "nurse", "supervisor", "admin"}

PhiAccessLevels == {"full", "masked", "none"}

MkPermissions(a, d, g, es) ==
    [phiAccess |-> a, canDecrypt |-> d, canGeneratePDF |-> g, allowedEntities |-> es]

DefaultRoleBasedAccess ==
    [r \in Roles |->
        CASE r = "doctor" ->
                MkPermissions("full", TRUE, TRUE,
                              {"PERSON", "EMAIL", "PHONE", "SSN", "DATE_OF_BIRTH"})
          [] r = "nurse" ->
                MkPermissions("masked", FALSE, FALSE, {"PERSON", "EMAIL"})
          [] r = "supervisor" ->
                MkPermissions("full", TRUE, TRUE,
                              {"PERSON", "EMAIL", "PHONE", "SSN", "CREDIT_CARD",
                               "DATE_OF_BIRTH"})
          [] r = "admin" ->
                MkPermissions("full", TRUE, TRUE,
                              {"PERSON", "EMAIL", "PHONE", "SSN", "CREDIT_CARD",
                               "DATE_OF_BIRTH"})]

\* edits of the role policy in one session of the dashboard
MaxEdits == 2

NoQuery == [entityType |-> "NONE", role |-> "NONE", visibility |-> "NONE"]

\* no edit since the last save or reset
NoEdit == [role |-> "NONE"]

RolesIdle ==
    /\ roleBasedAccess = DefaultRoleBasedAccess
    /\ backendRoles = DefaultRoleBasedAccess
    /\ edits = 0
    /\ unsavedEdit = NoEdit
    /\ resolved = NoQuery

----------------------------------------------------------------------------
(* Core: a key epoch of the cipher, before any call *)

NotEncrypted == <<"NotEncrypted">>

NotDecrypted == <<"NotDecrypted">>

NoCall == [type |-> "NONE", value |-> <<>>, out |-> NotEncrypted, back |-> NotDecrypted]

FpeIdle ==
    /\ cipherKey = 0
    /\ encCount = 0
    /\ encLast = NoCall
    /\ probe = NoCall
    /\ probeOut = NotEncrypted
    /\ between = FALSE

----------------------------------------------------------------------------
(* Core: the orchestrator, before any request *)

CycleIdle ==
    /\ stage = "RECEIVED"
    /\ failedAt = "NONE"
    /\ request = <<>>
    /\ requestRole = "doctor"
    /\ cipherKeys = <<>>
    /\ entities = {}
    /\ protectedText = <<>>
    /\ mapping = {}
    /\ external = {}
    /\ response = <<>>
    /\ matched = <<>>
    /\ final = <<>>
    /\ audit = <<>>

----------------------------------------------------------------------------
(* Chat client, SSO: localStorage before any login *)

\* getItem of a key that holds no item
NoItem == "null"

StorageKeys ==
    {"oauth_state", "oauth_code_verifier", "bart_access_token", "bart_id_token",
     "bart_refresh_token", "bart_user_info"}

\* exchangeCodeForToken calls made at the same time
MaxExchanges == 2

\* generateAuthUrl calls
MaxLogins == 2

NotCalled ==
    [pc |-> "idle", code |-> NoItem, state |-> NoItem, storedState |-> NoItem,
     codeVerifier |-> NoItem, responseOk |-> FALSE, storedTokens |-> FALSE,
     error |-> "none", login |-> 0]

SsoIdle ==
    /\ storage = [k \in StorageKeys |-> NoItem]
    /\ calls = [c \in 1..MaxExchanges |-> NotCalled]
    /\ tokenRequests = {}
    /\ logins = 0

\* useChat.sendMessage calls
MaxSends == 2

\* a sendMessage call that was not made
NotSent == [pc |-> "idle", text |-> <<>>]

\* ChatContext's initialState, no call made
ChatIdle ==
    /\ messages = <<>>
    /\ isLoading = FALSE
    /\ status = "idle"
    /\ sends = [c \in 1..MaxSends |-> NotSent]

\* localStorage.getItem of a key nothing is stored under
NoUserInfo == [username |-> NoItem, role |-> NoItem]

NoStored == [auth_token |-> NoItem, user_info |-> NoUserInfo, user_role |-> NoItem,
             username |-> NoItem]

\* no request made
NoRequest == [user_role |-> "NONE", user_id |-> "NONE", auth_token |-> "NONE"]

\* nothing stored, RoleSelector as useState leaves it, no chat request made
LoginIdle ==
    /\ localStore = NoStored
    /\ selector = [selectedRole |-> "general", username |-> ""]
    /\ chatRequest = NoRequest

NotMasked == <<"NONE">>

FnIdle ==
    /\ maskInput = [value |-> <<>>, entity |-> "NONE", pattern |-> "NONE"]
    /\ maskOutput = NotMasked

\* Layout's chatHistory holding the array items
ArrayOf(items) == [isArray |-> TRUE, items |-> items]

\* the state setChatHistory(undefined) leaves
NotAnArray == [isArray |-> FALSE, items |-> <<>>]

\* an empty history, stored and shown, no operation made
HistoryIdle ==
    /\ storedHistory = <<>>
    /\ chatHistory = ArrayOf(<<>>)
    /\ lastCall = [op |-> "NONE", id |-> "NONE"]

AppIdle == ChatIdle /\ LoginIdle /\ FnIdle /\ HistoryIdle

----------------------------------------------------------------------------
(* Configuration dashboard: editing one masking strategy card *)

\* the number input's declared maximum
MaxShow == 10

\* how far below 0 a typed count may lie
MaxNegative == 1

\* parseInt(e.target.value) || 0 over what can be typed into the input
ShowInputs == (0 - MaxNegative)..MaxShow

\* e.target.value || '*' over what can be typed into the one-character input
MaskChars == {"*", "#", "-"}

Render(e, p) == LivePreview(e, p)

InitMask ==
    /\ entity \in StrategyEntities
    /\ pattern = DefaultPattern(entity)
    /\ preview = Render(entity, pattern)
    /\ RolesIdle
    /\ FpeIdle
    /\ CycleIdle
    /\ SsoIdle
    /\ AppIdle

SetPatternType(t) ==
    /\ pattern' = [pattern EXCEPT !.type = t]
    /\ preview' = Render(entity, pattern')
    /\ UNCHANGED <<entity, roleVars, fpeVars, cycleVars, ssoVars, appVars>>

SetMaskChar(c) ==
    /\ pattern' = [pattern EXCEPT !.maskChar = c]
    /\ preview' = Render(entity, pattern')
    /\ UNCHANGED <<entity, roleVars, fpeVars, cycleVars, ssoVars, appVars>>

SetShowFirst(n) ==
    /\ pattern.type \in {"show_first", "show_first_last"}
    /\ pattern' = [pattern EXCEPT !.showFirst = n]
    /\ preview' = Render(entity, pattern')
    /\ UNCHANGED <<entity, roleVars, fpeVars, cycleVars, ssoVars, appVars>>

SetShowLast(n) ==
    /\ pattern.type \in {"show_last", "show_first_last"}
    /\ pattern' = [pattern EXCEPT !.showLast = n]
    /\ preview' = Render(entity, pattern')
    /\ UNCHANGED <<entity, roleVars, fpeVars, cycleVars, ssoVars, appVars>>

SetPreserveFormat(b) ==
    /\ pattern' = [pattern EXCEPT !.preserveFormat = b]
    /\ preview' = Render(entity, pattern')
    /\ UNCHANGED <<entity, roleVars, fpeVars, cycleVars, ssoVars, appVars>>

ResetStrategy ==
    /\ pattern' = DefaultPattern(entity)
    /\ preview' = Render(entity, pattern')
    /\ UNCHANGED <<entity, roleVars, fpeVars, cycleVars, ssoVars, appVars>>

NextMask ==
    \/ \E t \in PatternTypes : SetPatternType(t)
    \/ \E c \in MaskChars : SetMaskChar(c)
    \/ \E n \in ShowInputs : SetShowFirst(n)
    \/ \E n \in ShowInputs : SetShowLast(n)
    \/ \E b \in BOOLEAN : SetPreserveFormat(b)
    \/ ResetStrategy

SpecMask == InitMask /\ [][NextMask]_vars

----------------------------------------------------------------------------
(* Configuration dashboard: editing the role policy *)

\* updateConfig('roleBasedAccess', {...config.roleBasedAccess, [role]: permissions})
UpdateRole(r, permissions) ==
    /\ edits < MaxEdits
    /\ edits' = edits + 1
    /\ roleBasedAccess' = [roleBasedAccess EXCEPT ![r] = permissions]
    /\ unsavedEdit' = [role |-> r, permissions |-> permissions]
    /\ resolved' = NoQuery
    /\ UNCHANGED <<backendRoles, maskVars, fpeVars, cycleVars, ssoVars, appVars>>

SetPhiAccess(r, level) ==
    UpdateRole(r, [roleBasedAccess[r] EXCEPT !.phiAccess = level])

SetCanDecrypt(r, checked) ==
    UpdateRole(r, [roleBasedAccess[r] EXCEPT !.canDecrypt = checked])

SetCanGeneratePDF(r, checked) ==
    UpdateRole(r, [roleBasedAccess[r] EXCEPT !.canGeneratePDF = checked])

\* saveConfiguration with an ok response: the backend holds what was posted
SaveConfiguration ==
    /\ backendRoles' = roleBasedAccess
    /\ unsavedEdit' = NoEdit
    /\ UNCHANGED <<roleBasedAccess, edits, resolved, maskVars, fpeVars, cycleVars, ssoVars, appVars>>

\* loadConfiguration and the sync interval with an ok response: setConfig(data)
LoadConfiguration ==
    /\ roleBasedAccess' = backendRoles
    /\ resolved' = NoQuery
    /\ UNCHANGED <<backendRoles, edits, unsavedEdit, maskVars, fpeVars, cycleVars, ssoVars, appVars>>

ResetConfiguration ==
    /\ roleBasedAccess' = DefaultRoleBasedAccess
    /\ unsavedEdit' = NoEdit
    /\ resolved' = NoQuery
    /\ UNCHANGED <<backendRoles, edits, maskVars, fpeVars, cycleVars, ssoVars, appVars>>

----------------------------------------------------------------------------
(* Chat client: the role of a request; core: the role-based access resolver *)

\* localStorage.getItem('user_role'): nothing stored, or a stored role
NoStoredRole == "null"

StoredRoles == Roles \cup {"general", NoStoredRole}

UserRoleFallbackDoctor(stored) == IF stored = NoStoredRole THEN "doctor" ELSE stored

\* localStorage.getItem('user_role') || 'general'
UserRole(stored) == IF stored = NoStoredRole THEN "general" ELSE stored

EntityTypes ==
    {"PERSON", "EMAIL", "PHONE", "SSN", "CREDIT_CARD", "DATE_OF_BIRTH", "ADDRESS",
     "INSURANCE_ID", "MEDICAL_RECORD_NUMBER", "CUSTOM"}

resolveVisibilityByLevelOnly(entityType, role, rolePolicy) ==
    IF role \notin DOMAIN rolePolicy THEN "DENIED"
    ELSE IF entityType \notin rolePolicy[role].allowedEntities THEN "DENIED"
    ELSE CASE rolePolicy[role].phiAccess = "full" -> "ORIGINAL"
           [] rolePolicy[role].phiAccess = "masked" -> "MASKED"
           [] OTHER -> "DENIED"

\* resolveVisibility(entityType, role, rolePolicy): default-deny, then the
\* decrypt capability, then the access level
resolveVisibility(entityType, role, rolePolicy) ==
    IF role \notin DOMAIN rolePolicy THEN "DENIED"
    ELSE IF entityType \notin rolePolicy[role].allowedEntities THEN "DENIED"
    ELSE IF ~rolePolicy[role].canDecrypt THEN "MASKED"
    ELSE CASE rolePolicy[role].phiAccess = "full" -> "ORIGINAL"
           [] rolePolicy[role].phiAccess = "masked" -> "MASKED"
           [] OTHER -> "DENIED"

\* a request of the chat client with the stored role, and the resolver's
\* answer for one entity type under the current policy
Resolve(entityType, stored) ==
    /\ resolved = NoQuery
    /\ resolved' = [entityType |-> entityType,
                    role |-> UserRole(stored),
                    visibility |-> resolveVisibility(entityType, UserRole(stored),
                                                     roleBasedAccess)]
    /\ UNCHANGED <<roleBasedAccess, backendRoles, edits, unsavedEdit, maskVars, fpeVars, cycleVars, ssoVars, appVars>>

MaskIdle ==
    /\ entity = "PERSON"
    /\ pattern = DefaultPattern(entity)
    /\ preview = Render(entity, pattern)

\* the dashboard, the core and the SSO service before anything ran
CoreIdle == MaskIdle /\ RolesIdle /\ FpeIdle /\ CycleIdle /\ SsoIdle

InitRoles == RolesIdle /\ MaskIdle /\ FpeIdle /\ CycleIdle /\ SsoIdle /\ AppIdle

NextRoles ==
    \/ \E r \in Roles, level \in PhiAccessLevels : SetPhiAccess(r, level)
    \/ \E r \in Roles, checked \in BOOLEAN : SetCanDecrypt(r, checked)
    \/ \E r \in Roles, checked \in BOOLEAN : SetCanGeneratePDF(r, checked)
    \/ SaveConfiguration
    \/ LoadConfiguration
    \/ ResetConfiguration
    \/ \E entityType \in EntityTypes, stored \in StoredRoles : Resolve(entityType, stored)

SpecRoles == InitRoles /\ [][NextRoles]_vars

----------------------------------------------------------------------------
(* Core: the format-preserving cipher *)

LowerLetters ==
    <<"a", "b", "c", "d", "e", "f", "g", "h", "i", "j", "k", "l", "m", "n", "o",
      "p", "q", "r", "s", "t", "u", "v", "w", "x", "y", "z">>

UpperLetters ==
    <<"A", "B", "C", "D", "E", "F", "G", "H", "I", "J", "K", "L", "M", "N", "O",
      "P", "Q", "R", "S", "T", "U", "V", "W", "X", "Y", "Z">>

Position(alphabet, c) == CHOOSE i \in 1..Len(alphabet) : alphabet[i] = c

IsLower(c) == \E i \in 1..Len(LowerLetters) : LowerLetters[i] = c

IsUpper(c) == \E i \in 1..Len(UpperLetters) : UpperLetters[i] = c

\* the payload a character belongs to; "other" is the format skeleton
GroupOf(c) ==
    IF IsDigit(c) THEN "digit"
    ELSE IF IsLower(c) \/ IsUpper(c) THEN "letter"
    ELSE "other"

Radix(g) == IF g = "digit" THEN Len(Digits) ELSE Len(LowerLetters)

\* a payload character's value in its alphabet, the case left to the skeleton
CharValue(c) ==
    IF IsDigit(c) THEN Position(Digits, c) - 1
    ELSE IF IsLower(c) THEN Position(LowerLetters, c) - 1
    ELSE Position(UpperLetters, c) - 1

\* the character with value n in the alphabet and case of the character c
CharLike(c, n) ==
    IF IsDigit(c) THEN Digits[n + 1]
    ELSE IF IsLower(c) THEN LowerLetters[n + 1]
    ELSE UpperLetters[n + 1]

\* the values of the characters of group g, in order
PayloadOf(value, g) ==
    LET sel == SelectSeq(value, LAMBDA c : GroupOf(c) = g)
    IN  [i \in 1..Len(sel) |-> CharValue(sel[i])]

\* the value with its characters of group g replaced, in order, by nums
\* a reassembly that returns the payload alone, without the skeleton
RECURSIVE ReinsertNoSkeleton(_, _, _)
ReinsertNoSkeleton(value, g, nums) ==
    IF value = <<>> THEN <<>>
    ELSE IF GroupOf(Head(value)) = g
         THEN <<CharLike(Head(value), Head(nums))>>
                 \o ReinsertNoSkeleton(Tail(value), g, Tail(nums))
         ELSE ReinsertNoSkeleton(Tail(value), g, nums)

RECURSIVE Reinsert(_, _, _)
Reinsert(value, g, nums) ==
    IF value = <<>> THEN <<>>
    ELSE IF GroupOf(Head(value)) = g
         THEN <<CharLike(Head(value), Head(nums))>>
                 \o Reinsert(Tail(value), g, Tail(nums))
         ELSE <<Head(value)>> \o Reinsert(Tail(value), g, nums)

RECURSIVE Pow(_, _)
Pow(r, n) == IF n = 0 THEN 1 ELSE r * Pow(r, n - 1)

RECURSIVE NumOf(_, _)
NumOf(ds, r) ==
    IF ds = <<>> THEN 0
    ELSE NumOf(SubSeq(ds, 1, Len(ds) - 1), r) * r + ds[Len(ds)]

StrOf(n, len, r) == [i \in 1..len |-> (n \div Pow(r, len - i)) % r]

\* rounds of the Feistel network
FeistelRounds == 4

\* the keyed round function: a number from the key, the entity type's domain,
\* the round and the other half
RoundF(key, domain, i, b) ==
    b * 3 + (key + 1) * 7919 + domain * 104729 + (i + 1) * 1299709

\* rounds i .. FeistelRounds-1 on the halves a (la characters), b (lb)
RECURSIVE FeistelForward(_, _, _, _, _)
FeistelForward(st, r, key, domain, i) ==
    IF i = FeistelRounds THEN st
    ELSE LET c == (st.a + RoundF(key, domain, i, st.b)) % Pow(r, st.la)
         IN  FeistelForward([a |-> st.b, la |-> st.lb, b |-> c, lb |-> st.la],
                            r, key, domain, i + 1)

FeistelBackwardSameOrder(st, r, key, domain, i) ==
    FeistelForward(st, r, key, domain, 0)

\* rounds i-1 .. 0 undone
RECURSIVE FeistelBackward(_, _, _, _, _)
FeistelBackward(st, r, key, domain, i) ==
    IF i = 0 THEN st
    ELSE LET a == (st.b - RoundF(key, domain, i - 1, st.a)) % Pow(r, st.lb)
         IN  FeistelBackward([a |-> a, la |-> st.lb, b |-> st.a, lb |-> st.la],
                             r, key, domain, i - 1)

\* the length-preserving permutation of a payload over radix r
PermuteForward(nums, r, key, domain) ==
    LET n == Len(nums)
        u == n \div 2
        st == FeistelForward([a |-> NumOf(SubSeq(nums, 1, u), r), la |-> u,
                              b |-> NumOf(SubSeq(nums, u + 1, n), r), lb |-> n - u],
                             r, key, domain, 0)
    IN  StrOf(st.a, st.la, r) \o StrOf(st.b, st.lb, r)

\* its inverse
PermuteBackward(nums, r, key, domain) ==
    LET n == Len(nums)
        u == IF FeistelRounds % 2 = 0 THEN n \div 2 ELSE n - n \div 2
        st == FeistelBackward([a |-> NumOf(SubSeq(nums, 1, u), r), la |-> u,
                               b |-> NumOf(SubSeq(nums, u + 1, n), r), lb |-> n - u],
                              r, key, domain, FeistelRounds)
    IN  StrOf(st.a, st.la, r) \o StrOf(st.b, st.lb, r)

\* entity types whose payload is the digits; letters are skeleton
DigitTypes ==
    {"PHONE", "SSN", "CREDIT_CARD", "DATE_OF_BIRTH", "INSURANCE_ID",
     "MEDICAL_RECORD_NUMBER"}

\* entity types that use algebraic FPE; PERSON uses lookup substitution
AlgebraicTypes == EntityTypes \ {"PERSON"}

\* the encryption domain of an entity type
DomainOf(entityType) ==
    CASE entityType = "PHONE" -> 1
      [] entityType = "SSN" -> 2
      [] entityType = "CREDIT_CARD" -> 3
      [] entityType = "DATE_OF_BIRTH" -> 4
      [] entityType = "INSURANCE_ID" -> 5
      [] entityType = "MEDICAL_RECORD_NUMBER" -> 6
      [] entityType = "ADDRESS" -> 7
      [] entityType = "EMAIL" -> 8
      [] OTHER -> 9

\* the payload of group g encrypted in place
EncryptGroup(value, g, key, domain) ==
    Reinsert(value, g, PermuteForward(PayloadOf(value, g), Radix(g), key, domain))

DecryptGroup(value, g, key, domain) ==
    Reinsert(value, g, PermuteBackward(PayloadOf(value, g), Radix(g), key, domain))

\* the curated name space of the substitute names
NamePool ==
    << <<"A", "r", "j", "u", "n">>, <<"S", "h", "a", "r", "m", "a">>,
       <<"M", "i", "k", "e">>, <<"W", "i", "l", "s", "o", "n">> >>

RECURSIVE NameHash(_)
NameHash(word) ==
    IF word = <<>> THEN 0
    ELSE (IF GroupOf(Head(word)) = "letter" THEN CharValue(Head(word)) + 1 ELSE 0)
           + NameHash(Tail(word))

\* a word of a name replaced by the pool name its keyed hash selects
SubstituteWord(word, key) ==
    IF word = <<>> THEN word
    ELSE NamePool[((NameHash(word) + key) % Len(NamePool)) + 1]

\* a name replaced word by word, the spaces kept
RECURSIVE SubstituteName(_, _)
SubstituteName(value, key) ==
    IF Count(value, " ") = 0 THEN SubstituteWord(value, key)
    ELSE LET sp == IndexOf(value, " ")
         IN  SubstituteWord(SubSeq(value, 1, sp - 1), key) \o <<" ">>
               \o SubstituteName(SubSeq(value, sp + 1, Len(value)), key)

\* no key for the entity type's domain
NoKey == 0 - 1

\* the failure of the cipher, in place of an output
CipherError == <<"CipherError">>

\* an encryption that mixes the number of calls made so far into the key
encryptFPEWithNonce(value, entityType, key) ==
    IF entityType \notin EntityTypes \/ key = NoKey THEN CipherError
    ELSE IF value = <<>> THEN value
    ELSE IF entityType = "PERSON" THEN SubstituteName(value, key + encCount)
    ELSE LET d == EncryptGroup(value, "digit", key + encCount, DomainOf(entityType))
         IN  IF entityType \in DigitTypes THEN d
             ELSE EncryptGroup(d, "letter", key + encCount, DomainOf(entityType))

\* encryptFPE(value, entityType, key)
encryptFPE(value, entityType, key) ==
    IF entityType \notin EntityTypes \/ key = NoKey THEN CipherError
    ELSE IF value = <<>> THEN value
    ELSE IF entityType = "PERSON" THEN SubstituteName(value, key)
    ELSE LET d == EncryptGroup(value, "digit", key, DomainOf(entityType))
         IN  IF entityType \in DigitTypes THEN d
             ELSE EncryptGroup(d, "letter", key, DomainOf(entityType))

\* decryptFPE(value, entityType, key); a substitute name has no algebraic
\* inverse and is restored through the stored mapping
decryptFPE(value, entityType, key) ==
    IF entityType \notin AlgebraicTypes \/ key = NoKey THEN CipherError
    ELSE IF value = <<>> THEN value
    ELSE LET d == DecryptGroup(value, "digit", key, DomainOf(entityType))
         IN  IF entityType \in DigitTypes THEN d
             ELSE DecryptGroup(d, "letter", key, DomainOf(entityType))

----------------------------------------------------------------------------
(* Core: calls of the cipher in one key epoch *)

PhoneExample ==
    <<"+", "9", "1", "-", "9", "8", "7", "6", "5", "4", "3", "2", "1", "0">>

DobExample == <<"1", "9", "7", "8", "-", "0", "3", "-", "1", "5">>

PatientIdExample ==
    <<"H", "S", "P", "2", "0", "2", "5", "1", "0", "0", "7", "-", "1", "4", "5", "2">>

AddressExample ==
    <<"1", "2", ",", " ", "3", "r", "d", " ", "C", "r", "o", "s", "s">>

RameshKumar == <<"R", "a", "m", "e", "s", "h", " ", "K", "u", "m", "a", "r">>

Ramesh == <<"R", "a", "m", "e", "s", "h">>

SarahSmith == <<"S", "a", "r", "a", "h", " ", "S", "m", "i", "t", "h">>

MkInput(t, v) == [type |-> t, value |-> v]

\* the values the documentation encrypts, with their entity types, and one
\* value of a type that is not an entity type
ExampleInputs ==
    {MkInput("PHONE", PhoneExample), MkInput("DATE_OF_BIRTH", DobExample),
     MkInput("MEDICAL_RECORD_NUMBER", PatientIdExample), MkInput("SSN", SsnSample),
     MkInput("CREDIT_CARD", CreditCardSample), MkInput("ADDRESS", AddressExample),
     MkInput("PERSON", RameshKumar), MkInput("PERSON", Ramesh),
     MkInput("PERSON", PersonSample), MkInput("PASSPORT", SsnSample)}

\* the inputs whose first output is kept, to compare later outputs with
ProbeInputs ==
    {MkInput("PHONE", PhoneExample), MkInput("DATE_OF_BIRTH", DobExample),
     MkInput("ADDRESS", AddressExample), MkInput("PERSON", RameshKumar)}

\* characters of the short values: the ends of the digit alphabet, a separator
FpeChars == {"0", "9", "-"}

\* length of the short values
MaxLen == 2

ShortValues == UNION {[1..n -> FpeChars] : n \in 0..MaxLen}

FpeInputs == ExampleInputs \cup {MkInput("PHONE", v) : v \in ShortValues}

\* keys of an epoch
MaxKey == 1

\* calls in one epoch
MaxCalls == 3

InitFPE ==
    /\ cipherKey \in 0..MaxKey
    /\ encCount = 0
    /\ encLast = NoCall
    /\ probe \in ProbeInputs
    /\ probeOut = NotEncrypted
    /\ between = FALSE
    /\ MaskIdle
    /\ RolesIdle
    /\ CycleIdle
    /\ SsoIdle
    /\ AppIdle

\* a call encryptFPE(in.value, in.type, cipherKey)
Encrypt(in) ==
    /\ encCount < MaxCalls
    /\ encCount' = encCount + 1
    /\ LET out == encryptFPE(in.value, in.type, cipherKey)
       IN  /\ encLast' = [type |-> in.type, value |-> in.value, out |-> out,
                          back |-> NotDecrypted]
           /\ probeOut' = IF in = probe /\ probeOut = NotEncrypted
                          THEN out ELSE probeOut
    /\ between' = (between \/ (probeOut # NotEncrypted /\ in # probe))
    /\ UNCHANGED <<cipherKey, probe, maskVars, roleVars, cycleVars, ssoVars, appVars>>

\* a call decryptFPE(out, type, cipherKey) on the last output
Decrypt ==
    /\ encCount > 0
    /\ encLast.back = NotDecrypted
    /\ encLast.out # CipherError
    /\ encLast' = [encLast EXCEPT
                     !.back = decryptFPE(encLast.out, encLast.type, cipherKey)]
    /\ UNCHANGED <<cipherKey, encCount, probe, probeOut, between, maskVars, roleVars, cycleVars, ssoVars, appVars>>

NextFPE ==
    \/ \E in \in FpeInputs : Encrypt(in)
    \/ Decrypt

SpecFPE == InitFPE /\ [][NextFPE]_vars

----------------------------------------------------------------------------
(* Core: the protection orchestrator, one cycle *)

Plain(w) == [type |-> "NONE", value |-> <<w>>]

Pii(t, v) == [type |-> t, value |-> v]

\* requests, token by token
Requests ==
    {<<Plain("Patient"), Pii("PERSON", RameshKumar),
       Plain("Contact"), Pii("PHONE", PhoneExample)>>,
     <<Plain("SSN"), Pii("SSN", SsnSample)>>,
     <<Pii("PERSON", PersonSample), Plain("DOB"), Pii("DATE_OF_BIRTH", DobExample),
       Plain("Card"), Pii("CREDIT_CARD", CreditCardSample)>>,
     <<Plain("Patient"), Pii("PERSON", RameshKumar),
       Plain("Patient"), Pii("PERSON", PersonSample)>>,
     <<Plain("Dr"), Pii("PERSON", SarahSmith),
       Plain("Patient"), Pii("PERSON", PersonSample)>>,
     <<Pii("PERSON", RameshKumar), Plain("Contact"), Pii("PHONE", PhoneExample),
       Plain("Patient"), Pii("PERSON", RameshKumar)>>}

TextOf(req) == [i \in 1..Len(req) |-> req[i].value]

\* the detector: the entities of the request, each with where it starts
detect(req) ==
    {[type |-> req[i].type, value |-> req[i].value, start |-> i] :
        i \in {j \in 1..Len(req) : req[j].type # "NONE"}}

\* the entity types whose domain has no key
KeylessSets == {{}, {"PHONE"}, {"PERSON"}, {"DATE_OF_BIRTH"}, EntityTypes}

\* the role policies the dashboard holds after at most one change of an
\* access level
RolePolicies ==
    {DefaultRoleBasedAccess}
        \cup {[DefaultRoleBasedAccess EXCEPT ![r].phiAccess = level] :
                 r \in Roles, level \in PhiAccessLevels}

\* a token no entity of the request was protected as
UnmappedValue == <<"0", "0", "0", "-", "0", "0", "-", "0", "0", "0", "0">>

InitCycle ==
    /\ stage = "RECEIVED"
    /\ failedAt = "NONE"
    /\ request \in Requests
    /\ requestRole \in Roles
    /\ \E key \in 0..MaxKey, keyless \in KeylessSets :
          cipherKeys = [t \in EntityTypes |-> IF t \in keyless THEN NoKey ELSE key]
    /\ entities = {}
    /\ protectedText = TextOf(request)
    /\ mapping = {}
    /\ external = {}
    /\ response = <<>>
    /\ matched = <<>>
    /\ final = <<>>
    /\ audit = <<>>
    /\ roleBasedAccess \in RolePolicies
    /\ backendRoles = DefaultRoleBasedAccess
    /\ edits = 0
    /\ unsavedEdit = NoEdit
    /\ resolved = NoQuery
    /\ MaskIdle
    /\ FpeIdle
    /\ SsoIdle
    /\ AppIdle

\* any stage error ends the cycle
Fail ==
    /\ stage' = "FAILED"
    /\ failedAt' = stage

\* RECEIVED -> DETECTED
Detect ==
    /\ stage = "RECEIVED"
    /\ stage' = "DETECTED"
    /\ entities' = detect(request)
    /\ UNCHANGED <<failedAt, request, requestRole, cipherKeys, protectedText, mapping,
                   external, response, matched, final, audit, maskVars, roleVars, fpeVars, ssoVars, appVars>>

\* the detector throws
DetectFail ==
    /\ stage = "RECEIVED"
    /\ Fail
    /\ UNCHANGED <<request, requestRole, cipherKeys, entities, protectedText, mapping,
                   external, response, matched, final, audit, maskVars, roleVars, fpeVars, ssoVars, appVars>>

\* a protection that takes the text for protected after its first entity
StageAfterProtectFirst(done, detected) == "PROTECTED"

\* DETECTED -> PROTECTED once every detected entity has its mapping entry
StageAfterProtect(done, detected) ==
    IF {m.start : m \in done} = {e.start : e \in detected}
    THEN "PROTECTED" ELSE "DETECTED"

\* protect, one entity: its value is replaced by its encryption and the pair
\* is added to the mapping; a CipherError aborts the cycle
ProtectEntity(e) ==
    /\ stage = "DETECTED"
    /\ e \in entities
    /\ e.start \notin {m.start : m \in mapping}
    /\ LET out == encryptFPE(e.value, e.type, cipherKeys[e.type])
       IN  IF out = CipherError
           THEN /\ Fail
                /\ UNCHANGED <<protectedText, mapping>>
           ELSE /\ protectedText' = [protectedText EXCEPT ![e.start] = out]
                /\ mapping' = mapping \cup
                       {[start |-> e.start, type |-> e.type,
                         original |-> e.value, protected |-> out]}
                /\ stage' = StageAfterProtect(mapping', entities)
                /\ UNCHANGED failedAt
    /\ UNCHANGED <<request, requestRole, cipherKeys, entities, external, response,
                   matched, final, audit, maskVars, roleVars, fpeVars, ssoVars, appVars>>

\* PROTECTED -> [sent externally]
Send ==
    /\ stage = "PROTECTED"
    /\ external = {}
    /\ external' = {protectedText}
    /\ UNCHANGED <<stage, failedAt, request, requestRole, cipherKeys, entities,
                   protectedText, mapping, response, matched, final, audit, maskVars,
                   roleVars, fpeVars, ssoVars, appVars>>

\* [sent externally] -> RESPONSE_RECEIVED: the LLM answers with the values it
\* was sent, and possibly with a value it was not sent
Respond(extra) ==
    /\ stage = "PROTECTED"
    /\ external # {}
    /\ stage' = "RESPONSE_RECEIVED"
    /\ response' = protectedText \o extra
    /\ UNCHANGED <<failedAt, request, requestRole, cipherKeys, entities, protectedText,
                   mapping, external, matched, final, audit, maskVars, roleVars, fpeVars, ssoVars, appVars>>

\* the call of the LLM fails
RespondFail ==
    /\ stage = "PROTECTED"
    /\ external # {}
    /\ Fail
    /\ UNCHANGED <<request, requestRole, cipherKeys, entities, protectedText, mapping,
                   external, response, matched, final, audit, maskVars, roleVars, fpeVars, ssoVars, appVars>>

\* a match that does not compare the protected value
LookupAny(map, value) == map

\* the mapping entries of a protected value
Lookup(map, value) == {m \in map : m.protected = value}

\* RESPONSE_RECEIVED -> ENTITIES_REMAPPED: the reverse mapping
Remap ==
    /\ stage = "RESPONSE_RECEIVED"
    /\ stage' = "ENTITIES_REMAPPED"
    /\ matched' = [i \in 1..Len(response) |-> Lookup(mapping, response[i])]
    /\ UNCHANGED <<failedAt, request, requestRole, cipherKeys, entities, protectedText,
                   mapping, external, response, final, audit, maskVars, roleVars, fpeVars, ssoVars, appVars>>

\* the masking policy of an entity type
MaskingPolicy(entityType) == DefaultPattern(entityType)

\* a restoration that masks the protected value
restoreEntityMaskingProtected(value, found, rolePolicy, r) ==
    IF found = {} THEN value
    ELSE LET m == CHOOSE x \in found : TRUE
         IN  CASE rolePolicy[r].phiAccess = "full" -> m.original
               [] rolePolicy[r].phiAccess = "masked" ->
                     MaskValue(value, m.type, MaskingPolicy(m.type))
               [] OTHER -> value

\* restore, one token of the response: by the role's phiAccess, the
\* original value, its masked form, or the protected value as it is; a
\* value with no mapping entry is left as it is
restoreEntity(value, found, rolePolicy, r) ==
    IF found = {} THEN value
    ELSE LET m == CHOOSE x \in found : TRUE
         IN  CASE rolePolicy[r].phiAccess = "full" -> m.original
               [] rolePolicy[r].phiAccess = "masked" ->
                     MaskValue(m.original, m.type, MaskingPolicy(m.type))
               [] OTHER -> value

\* ENTITIES_REMAPPED -> ROLE_FILTERED
Filter ==
    /\ stage = "ENTITIES_REMAPPED"
    /\ stage' = "ROLE_FILTERED"
    /\ final' = [i \in 1..Len(response) |->
                    restoreEntity(response[i], matched[i], roleBasedAccess, requestRole)]
    /\ UNCHANGED <<failedAt, request, requestRole, cipherKeys, entities, protectedText,
                   mapping, external, response, matched, audit, maskVars, roleVars, fpeVars, ssoVars, appVars>>

\* an audit record that logs the request text as the text that was sent
AuditRecordUnprotected(req, detected, sent, resp, restored) ==
    << <<"prompt", TextOf(req)>>,
       <<"original_data", {[type |-> e.type, value |-> e.value] : e \in detected}>>,
       <<"after_fpe_before_llm", TextOf(req)>>,
       <<"nlp_response", resp>>,
       <<"restored_with_original_data", restored>> >>

\* the llm_audit record of a cycle, field by field in the order logged
AuditRecord(req, detected, sent, resp, restored) ==
    << <<"prompt", TextOf(req)>>,
       <<"original_data", {[type |-> e.type, value |-> e.value] : e \in detected}>>,
       <<"after_fpe_before_llm", sent>>,
       <<"nlp_response", resp>>,
       <<"restored_with_original_data", restored>> >>

\* a delivery that does not wait for the role filter
DeliverUnfiltered ==
    /\ stage \in {"ENTITIES_REMAPPED", "ROLE_FILTERED"}
    /\ stage' = "DELIVERED"
    /\ audit' = Append(audit, AuditRecord(request, entities, protectedText, response, final))
    /\ UNCHANGED <<failedAt, request, requestRole, cipherKeys, entities, protectedText,
                   mapping, external, response, matched, final, maskVars, roleVars,
                   fpeVars, ssoVars, appVars>>

\* ROLE_FILTERED -> DELIVERED, with the audit record of the cycle
Deliver ==
    /\ stage = "ROLE_FILTERED"
    /\ stage' = "DELIVERED"
    /\ audit' = Append(audit, AuditRecord(request, entities, protectedText, response, final))
    /\ UNCHANGED <<failedAt, request, requestRole, cipherKeys, entities, protectedText,
                   mapping, external, response, matched, final, maskVars, roleVars,
                   fpeVars, ssoVars, appVars>>

NextCycle ==
    \/ Detect
    \/ DetectFail
    \/ \E e \in entities : ProtectEntity(e)
    \/ Send
    \/ \E extra \in {<<>>, <<UnmappedValue>>} : Respond(extra)
    \/ RespondFail
    \/ Remap
    \/ Filter
    \/ Deliver

SpecCycle == InitCycle /\ [][NextCycle]_vars

----------------------------------------------------------------------------
(* Chat client, SSO: ssoService *)

\* the states generateState can draw
OAuthStates == {"s1", "s2"}

CodeVerifiers == {"v1"}

AuthorizationCodes == {"c1"}

\* what the token endpoint can answer with
TokenData ==
    {[access_token |-> "at", id_token |-> "it", refresh_token |-> "rt"],
     [access_token |-> "at", id_token |-> NoItem, refresh_token |-> NoItem],
     [access_token |-> NoItem, id_token |-> NoItem, refresh_token |-> NoItem]}

InitSSO ==
    /\ SsoIdle
    /\ AppIdle
    /\ MaskIdle
    /\ RolesIdle
    /\ FpeIdle
    /\ CycleIdle

\* generateAuthUrl: generateState stores the state, then the verifier is stored
GenerateAuthUrl(state, codeVerifier) ==
    /\ logins < MaxLogins
    /\ logins' = logins + 1
    /\ storage' = [storage EXCEPT !["oauth_state"] = state,
                                  !["oauth_code_verifier"] = codeVerifier]
    /\ UNCHANGED <<calls, tokenRequests, maskVars, roleVars, fpeVars, cycleVars, appVars>>

\* a validation that takes any received state while a state is stored
validateStateUncompared(items, receivedState) ==
    IF items["oauth_state"] = NoItem THEN [isValid |-> FALSE, items |-> items]
    ELSE IF receivedState = NoItem THEN [isValid |-> FALSE, items |-> items]
    ELSE [isValid |-> TRUE, items |-> [items EXCEPT !["oauth_state"] = NoItem]]

\* a validation that leaves the stored state where it is
validateStateKeeping(items, receivedState) ==
    IF items["oauth_state"] = NoItem THEN [isValid |-> FALSE, items |-> items]
    ELSE IF receivedState = NoItem THEN [isValid |-> FALSE, items |-> items]
    ELSE [isValid |-> items["oauth_state"] = receivedState, items |-> items]

\* validateState(receivedState): its answer and localStorage after it
validateState(items, receivedState) ==
    LET storedState == items["oauth_state"]
    IN  IF storedState = NoItem THEN [isValid |-> FALSE, items |-> items]
        ELSE IF receivedState = NoItem THEN [isValid |-> FALSE, items |-> items]
        ELSE [isValid |-> storedState = receivedState,
              items |-> [items EXCEPT !["oauth_state"] = NoItem]]

\* storeTokens(tokenData): each token that is present is stored under its key
storeTokens(items, tokenData) ==
    [k \in StorageKeys |->
        CASE k = "bart_access_token" /\ tokenData.access_token # NoItem
                -> tokenData.access_token
          [] k = "bart_id_token" /\ tokenData.id_token # NoItem
                -> tokenData.id_token
          [] k = "bart_refresh_token" /\ tokenData.refresh_token # NoItem
                -> tokenData.refresh_token
          [] OTHER -> items[k]]

\* exchangeCodeForToken(code, state) up to its fetch of the token endpoint
ExchangeCodeForToken(c, code, receivedState) ==
    /\ calls[c].pc = "idle"
    /\ \A d \in 1..(c - 1) : calls[d].pc # "idle"
    /\ LET v == validateState(storage, receivedState)
           codeVerifier == v.items["oauth_code_verifier"]
           seen == [calls[c] EXCEPT !.code = code, !.state = receivedState,
                                    !.storedState = storage["oauth_state"],
                                    !.login = logins]
       IN  IF ~v.isValid
           THEN /\ storage' = v.items
                /\ calls' = [calls EXCEPT ![c] =
                       [seen EXCEPT !.pc = "threw", !.error = "Invalid OAuth state"]]
                /\ UNCHANGED tokenRequests
           ELSE /\ storage' = [v.items EXCEPT !["oauth_code_verifier"] = NoItem]
                /\ IF codeVerifier = NoItem
                   THEN /\ calls' = [calls EXCEPT ![c] =
                               [seen EXCEPT !.pc = "threw",
                                            !.error = "Missing code verifier"]]
                        /\ UNCHANGED tokenRequests
                   ELSE /\ calls' = [calls EXCEPT ![c] =
                               [seen EXCEPT !.pc = "fetching",
                                            !.codeVerifier = codeVerifier]]
                        /\ tokenRequests' = tokenRequests \cup
                               {[call |-> c, code |-> code,
                                 code_verifier |-> codeVerifier]}
    /\ UNCHANGED <<logins, maskVars, roleVars, fpeVars, cycleVars, appVars>>

\* the token endpoint answers: not ok throws, ok stores the tokens and goes on
\* to fetch the user info
TokenResponse(c, ok, tokenData) ==
    /\ calls[c].pc = "fetching"
    /\ IF ~ok
       THEN /\ calls' = [calls EXCEPT ![c].pc = "threw",
                                      ![c].error = "Token exchange failed"]
            /\ UNCHANGED storage
       ELSE /\ storage' = storeTokens(storage, tokenData)
            /\ calls' = [calls EXCEPT
                   ![c].pc = "userinfo",
                   ![c].responseOk = TRUE,
                   ![c].storedTokens =
                       (\E k \in DOMAIN tokenData : tokenData[k] # NoItem)]
    /\ UNCHANGED <<tokenRequests, logins, maskVars, roleVars, fpeVars, cycleVars, appVars>>

\* fetchAndStoreUserInfo: the user info is stored when the provider answers
\* ok; a failure is swallowed
UserInfoResponse(c, ok) ==
    /\ calls[c].pc = "userinfo"
    /\ storage' = IF ok THEN [storage EXCEPT !["bart_user_info"] = "userInfo"]
                  ELSE storage
    /\ calls' = [calls EXCEPT ![c].pc = "done"]
    /\ UNCHANGED <<tokenRequests, logins, maskVars, roleVars, fpeVars, cycleVars, appVars>>

\* logout
Logout ==
    /\ storage' = [k \in StorageKeys |-> NoItem]
    /\ UNCHANGED <<calls, tokenRequests, logins, maskVars, roleVars, fpeVars, cycleVars, appVars>>

NextSSO ==
    \/ \E state \in OAuthStates, codeVerifier \in CodeVerifiers :
          GenerateAuthUrl(state, codeVerifier)
    \/ \E c \in 1..MaxExchanges, code \in AuthorizationCodes,
          receivedState \in OAuthStates \cup {NoItem} :
          ExchangeCodeForToken(c, code, receivedState)
    \/ \E c \in 1..MaxExchanges, ok \in BOOLEAN, tokenData \in TokenData :
          TokenResponse(c, ok, tokenData)
    \/ \E c \in 1..MaxExchanges, ok \in BOOLEAN : UserInfoResponse(c, ok)
    \/ Logout

SpecSSO == InitSSO /\ [][NextSSO]_vars

----------------------------------------------------------------------------
(* Chat client: the chat store and useChat *)

\* QUERY_STATUS
QUERY_STATUS == {"idle", "loading", "success", "error"}

\* a property QUERY_STATUS does not have (PROCESSING, SENT, COMPLETED), and a
\* property a message was not given
Undefined == "undefined"

\* QUERY_STATUS[name]
QueryStatus(name) ==
    IF name = "IDLE" THEN "idle"
    ELSE IF name = "LOADING" THEN "loading"
    ELSE IF name = "SUCCESS" THEN "success"
    ELSE IF name = "ERROR" THEN "error"
    ELSE Undefined

\* the texts typed into the chat input
Texts == {<<"h", "i">>, <<" ">>, <<>>}

\* text.trim() is not empty
NotBlank(text) == \E i \in 1..Len(text) : text[i] # " "

\* messages the store holds
MaxMessages == 2

\* what becomes of the POST: answered with a response text, answered without
\* one, answered with an HTTP error, not answered
FetchOutcomes == {"ok", "ok_no_response", "http_error", "network_error"}

\* chatService.sendMessage: the result it resolves with
chatServiceResult(outcome) ==
    IF outcome = "ok"
        THEN [success |-> TRUE, error |-> NoItem, response |-> "answer"]
    ELSE IF outcome = "ok_no_response"
        THEN [success |-> TRUE, error |-> NoItem, response |-> NoItem]
    ELSE IF outcome = "http_error"
        THEN [success |-> FALSE, error |-> "HTTP error! status: 500", response |-> NoItem]
    ELSE [success |-> FALSE, error |-> "Failed to fetch", response |-> NoItem]

\* what api.sendMessage hands to useChat: a result, or an exception
ApiOutcomes == FetchOutcomes \cup {"exception"}

\* addUserMessage, addAssistantMessage, addSystemMessage, addErrorMessage:
\* the message each adds
UserMessage(content) ==
    [type |-> "user", content |-> content, status |-> QueryStatus("SENT")]

AssistantMessage(content) ==
    [type |-> "assistant", content |-> content, status |-> QueryStatus("COMPLETED")]

SystemMessage(content) ==
    [type |-> "system", content |-> content, status |-> QueryStatus("COMPLETED")]

ErrorMessage(content) ==
    [type |-> "error", content |-> content, status |-> QueryStatus("ERROR")]

\* result?.error || 'Failed to get response from server'
ErrorOf(result) ==
    IF result.error = NoItem THEN "Failed to get response from server" ELSE result.error

\* a handling of the result that adds nothing when the response has no text
HandleResultSilentOnEmpty(outcome) ==
    IF outcome = "exception"
        THEN <<ErrorMessage("Failed to send message: error")>>
    ELSE LET result == chatServiceResult(outcome)
         IN  IF ~result.success \/ result.error # NoItem
                 THEN <<ErrorMessage(ErrorOf(result))>>
             ELSE IF result.response # NoItem
                 THEN <<[type |-> "assistant", content |-> result.response,
                         status |-> Undefined]>>
             ELSE <<>>

\* useChat.sendMessage after the await: the messages it adds
HandleResult(outcome) ==
    IF outcome = "exception"
        THEN <<ErrorMessage("Failed to send message: error")>>
    ELSE LET result == chatServiceResult(outcome)
         IN  IF ~result.success \/ result.error # NoItem
                 THEN <<ErrorMessage(ErrorOf(result))>>
             ELSE IF result.response # NoItem
                 THEN <<[type |-> "assistant", content |-> result.response,
                         status |-> Undefined]>>
             ELSE <<ErrorMessage("No response received from AI")>>

InitChat ==
    /\ ChatIdle
    /\ CoreIdle
    /\ LoginIdle
    /\ FnIdle
    /\ HistoryIdle

\* useChat.sendMessage(text) up to its await
SendMessage(c, text) ==
    /\ sends[c].pc = "idle"
    /\ \A b \in 1..(c - 1) : sends[b].pc # "idle"
    /\ IF ~NotBlank(text)
           THEN /\ sends' = [sends EXCEPT ![c] = [pc |-> "returned", text |-> text]]
                /\ UNCHANGED <<messages, isLoading, status>>
           ELSE /\ messages' = Append(messages, UserMessage(text))
                /\ isLoading' = TRUE
                /\ status' = QueryStatus("PROCESSING")
                /\ sends' = [sends EXCEPT ![c] = [pc |-> "waiting", text |-> text]]
    /\ UNCHANGED <<coreVars, loginVars, fnVars, historyVars>>

\* useChat.sendMessage from the await on
Settle(c, outcome) ==
    /\ sends[c].pc = "waiting"
    /\ messages' = messages \o HandleResult(outcome)
    /\ isLoading' = FALSE
    /\ status' = QueryStatus("IDLE")
    /\ sends' = [sends EXCEPT ![c].pc = "done"]
    /\ UNCHANGED <<coreVars, loginVars, fnVars, historyVars>>

\* useChat.newChat: RESET_CHAT
NewChat ==
    /\ messages' = <<>>
    /\ isLoading' = FALSE
    /\ status' = QueryStatus("IDLE")
    /\ UNCHANGED <<sends, coreVars, loginVars, fnVars, historyVars>>

\* addUserMessage, addAssistantMessage, addSystemMessage, addErrorMessage
AddMessage(message) ==
    /\ Len(messages) < MaxMessages
    /\ messages' = Append(messages, message)
    /\ UNCHANGED <<isLoading, status, sends, coreVars, loginVars, fnVars, historyVars>>

NextChat ==
    \/ \E c \in 1..MaxSends, text \in Texts : SendMessage(c, text)
    \/ \E c \in 1..MaxSends, outcome \in ApiOutcomes : Settle(c, outcome)
    \/ NewChat
    \/ \E message \in {UserMessage(<<"h", "i">>), AssistantMessage("answer"),
                       SystemMessage("note"), ErrorMessage("failed")} :
          AddMessage(message)

SpecChat == InitChat /\ [][NextChat]_vars

\* the request of every call is answered or fails
FairSpecChat ==
    SpecChat /\ \A c \in 1..MaxSends : WF_vars(\E outcome \in ApiOutcomes : Settle(c, outcome))

----------------------------------------------------------------------------
(* Chat client: login, the role selector and the role a chat request carries *)

\* the users POST /api/login answers with, each with the token it issues
LoginUsers ==
    {[username |-> "dr.smith", role |-> "doctor", token |-> "t1"],
     [username |-> "nurse.wilson", role |-> "nurse", token |-> "t2"]}

\* JSON.stringify(data.user)
UserInfo(user) == [username |-> user.username, role |-> user.role]

\* the roles RoleSelector offers
SelectorRoles == Roles \cup {"general"}

\* what is typed into RoleSelector's username input
SelectorNames == {"", "guest"}

InitLogin ==
    /\ LoginIdle
    /\ CoreIdle
    /\ ChatIdle
    /\ FnIdle
    /\ HistoryIdle

\* LoginForm.handleLogin answered with data.success
Login(user) ==
    /\ localStore' = [auth_token |-> user.token, user_info |-> UserInfo(user),
                      user_role |-> user.role, username |-> user.username]
    /\ UNCHANGED <<selector, chatRequest, coreVars, chatVars, fnVars, historyVars>>

\* AuthContext.logout
AuthLogout ==
    /\ localStore' = NoStored
    /\ UNCHANGED <<selector, chatRequest, coreVars, chatVars, fnVars, historyVars>>

\* RoleSelector mounting: the saved role and username become its state
MountRoleSelector ==
    /\ selector' =
          [selectedRole |-> IF localStore.user_role # NoItem
                                THEN localStore.user_role ELSE "general",
           username |-> IF localStore.username # NoItem
                            THEN localStore.username ELSE ""]
    /\ UNCHANGED <<localStore, chatRequest, coreVars, chatVars, fnVars, historyVars>>

\* RoleSelector.handleRoleChange(roleId)
HandleRoleChange(roleId) ==
    /\ selector' = [selector EXCEPT !.selectedRole = roleId]
    /\ localStore' = [localStore EXCEPT !.user_role = roleId]
    /\ UNCHANGED <<chatRequest, coreVars, chatVars, fnVars, historyVars>>

\* RoleSelector's username input
SetUsername(name) ==
    /\ selector' = [selector EXCEPT !.username = name]
    /\ UNCHANGED <<localStore, chatRequest, coreVars, chatVars, fnVars, historyVars>>

\* RoleSelector.handleLogin
SelectorLogin ==
    /\ selector.username # ""
    /\ localStore' = [localStore EXCEPT !.username = selector.username,
                                        !.user_role = selector.selectedRole]
    /\ UNCHANGED <<selector, chatRequest, coreVars, chatVars, fnVars, historyVars>>

\* chatService.sendMessage: the body it posts
ChatSend ==
    /\ chatRequest' =
          [user_role |-> UserRole(localStore.user_role),
           user_id |-> IF localStore.username = NoItem
                           THEN "Anonymous" ELSE localStore.username,
           auth_token |-> localStore.auth_token]
    /\ UNCHANGED <<localStore, selector, coreVars, chatVars, fnVars, historyVars>>

NextLogin ==
    \/ \E user \in LoginUsers : Login(user)
    \/ AuthLogout
    \/ MountRoleSelector
    \/ \E roleId \in SelectorRoles : HandleRoleChange(roleId)
    \/ \E name \in SelectorNames : SetUsername(name)
    \/ SelectorLogin
    \/ ChatSend

SpecLogin == InitLogin /\ [][NextLogin]_vars

----------------------------------------------------------------------------
(* Configuration dashboard: the masking of the preview as a function *)

\* pattern types a stored configuration can hold: the five the select offers
\* and one it does not
FnPatternTypes == PatternTypes \cup {"hash"}

\* entity keys: three of defaultConfig and one it does not have
FnEntities == {"EMAIL", "PERSON", "SSN", "CUSTOM_ID"}

\* values with no '@', one '@' and two, with and without separators
FnValues ==
    {<<"a", "b", "@", "c">>, <<"a", "b", "c">>, <<"a", "@", "b", "@", "c">>,
     <<"a", "-", "b">>, <<"a", " ", "b", "@", "c", "@">>, <<"1", "2", "-", "3">>,
     <<>>}

\* showFirst and showLast of the patterns
MaxFnShow == 1

FnPatterns ==
    {MkPattern(t, f, l, m, pf) :
        t \in FnPatternTypes, f \in 0..MaxFnShow, l \in 0..MaxFnShow,
        m \in {"*", "#"}, pf \in BOOLEAN}

InitMaskFn ==
    /\ maskInput \in [value : FnValues, entity : FnEntities, pattern : FnPatterns]
    /\ maskOutput = NotMasked
    /\ CoreIdle
    /\ ChatIdle
    /\ LoginIdle
    /\ HistoryIdle

\* the preview's masking of maskInput
ApplyMask ==
    /\ maskOutput = NotMasked
    /\ maskOutput' = MaskValue(maskInput.value, maskInput.entity, maskInput.pattern)
    /\ UNCHANGED <<maskInput, coreVars, chatVars, loginVars, historyVars>>

NextMaskFn == ApplyMask

SpecMaskFn == InitMaskFn /\ [][NextMaskFn]_vars

----------------------------------------------------------------------------
(* Chat client: chatHistoryService and Layout's chat history *)

SessionIds == {"a", "b", "c"}

\* the first user message's text: a text, or undefined
FirstMessages == {"hello", Undefined}

\* sessionMessages.length
MaxCount == 2

\* a property JSON.stringify left out
Absent == "absent"

\* chatData of addOrUpdateChat
ChatData(sessionId, firstMessage, count) ==
    [id |-> sessionId,
     title |-> IF firstMessage = Undefined THEN "New Chat" ELSE firstMessage,
     lastMessage |-> firstMessage,
     messageCount |-> count]

\* JSON.parse(JSON.stringify(history)): properties that are undefined are gone
JsonRoundTrip(history) ==
    [i \in 1..Len(history) |->
        [history[i] EXCEPT !.lastMessage = IF @ = Undefined THEN Absent ELSE @]]

\* history.findIndex(chat => chat.id === sessionId), 0 for -1
FindIndex(history, sessionId) ==
    IF \E i \in 1..Len(history) : history[i].id = sessionId
        THEN CHOOSE i \in 1..Len(history) :
                 /\ history[i].id = sessionId
                 /\ \A j \in 1..(i - 1) : history[j].id # sessionId
        ELSE 0

\* an addOrUpdateChat that puts every chat at the front, as addChat does
addOrUpdateChatUnshift(history, sessionId, firstMessage, count) ==
    JsonRoundTrip(<<ChatData(sessionId, firstMessage, count)>> \o history)

\* addOrUpdateChat: the history it saves
addOrUpdateChat(history, sessionId, firstMessage, count) ==
    LET existingIndex == FindIndex(history, sessionId)
        chatData == ChatData(sessionId, firstMessage, count)
    IN  JsonRoundTrip(IF existingIndex # 0
                          THEN [history EXCEPT ![existingIndex] = chatData]
                          ELSE <<chatData>> \o history)

\* deleteChat: the history it saves
deleteChat(history, chatId) ==
    LET Other(chat) == chat.id # chatId
    IN  JsonRoundTrip(SelectSeq(history, Other))

\* the updater of the effect on messages: the array it returns
UpdatedHistory(prev, updatedChat) ==
    LET existingIndex == FindIndex(prev, updatedChat.id)
        newHistory == IF existingIndex # 0
                          THEN [prev EXCEPT ![existingIndex] = updatedChat]
                          ELSE <<updatedChat>> \o prev
    IN  [i \in 1..Len(newHistory) |->
            IF newHistory[i].id # updatedChat.id
                THEN [newHistory[i] EXCEPT !.isActive = "false"]
                ELSE newHistory[i]]

\* a chat as Layout holds it: isActive is set on it later
Shown(chat) ==
    [id |-> chat.id, title |-> chat.title, lastMessage |-> chat.lastMessage,
     messageCount |-> chat.messageCount, isActive |-> Absent]

InitHistory ==
    /\ HistoryIdle
    /\ CoreIdle
    /\ ChatIdle
    /\ LoginIdle
    /\ FnIdle

\* Layout mounting: setChatHistory(chatHistoryService.getChatHistory())
MountLayout ==
    /\ chatHistory' = ArrayOf([i \in 1..Len(storedHistory) |-> Shown(storedHistory[i])])
    /\ lastCall' = [op |-> "getChatHistory", id |-> "NONE"]
    /\ UNCHANGED <<storedHistory, coreVars, chatVars, loginVars, fnVars>>

\* the effect on messages: addOrUpdateChat, then the updater, which throws on
\* a state that is not an array
MessagesChanged(sessionId, firstMessage, count) ==
    /\ storedHistory' = addOrUpdateChat(storedHistory, sessionId, firstMessage, count)
    /\ chatHistory' =
          IF chatHistory.isArray
              THEN ArrayOf(UpdatedHistory(chatHistory.items,
                                          Shown(ChatData(sessionId, firstMessage, count))))
              ELSE chatHistory
    /\ lastCall' = [op |-> "addOrUpdateChat", id |-> sessionId]
    /\ UNCHANGED <<coreVars, chatVars, loginVars, fnVars>>

\* selectChat: chatHistoryService has no loadChatSession, the call throws
SelectChat(chatId) ==
    /\ lastCall' = [op |-> "selectChat", id |-> chatId]
    /\ UNCHANGED <<storedHistory, chatHistory, coreVars, chatVars, loginVars, fnVars>>

\* handleDeleteChat: deleteChat returns nothing, and that is what is set
HandleDeleteChat(chatId) ==
    /\ storedHistory' = deleteChat(storedHistory, chatId)
    /\ chatHistory' = NotAnArray
    /\ lastCall' = [op |-> "deleteChat", id |-> chatId]
    /\ UNCHANGED <<coreVars, chatVars, loginVars, fnVars>>

NextHistory ==
    \/ MountLayout
    \/ \E sessionId \in SessionIds, firstMessage \in FirstMessages, count \in 1..MaxCount :
          MessagesChanged(sessionId, firstMessage, count)
    \/ \E chatId \in SessionIds : SelectChat(chatId)
    \/ \E chatId \in SessionIds : HandleDeleteChat(chatId)

SpecHistory == InitHistory /\ [][NextHistory]_vars

----------------------------------------------------------------------------
(* Cipher: properties *)

Encrypted == encCount > 0 /\ encLast.out # CipherError

Decrypted == Encrypted /\ encLast.back # NotDecrypted

\* position by position, the output has the input's character class, and
\* the input's character where that is neither a digit nor a letter
SameShape(value, out) ==
    /\ Len(out) = Len(value)
    /\ \A i \in 1..Len(value) :
          /\ GroupOf(out[i]) = GroupOf(value[i])
          /\ IsUpper(out[i]) = IsUpper(value[i])
          /\ GroupOf(value[i]) = "other" => out[i] = value[i]

\* C2: for every entity type that uses algebraic FPE (every supported
\* type but PERSON), every value and every valid key,
\* decryptFPE(encryptFPE(v, t, k), t, k) = v
C2_RoundTrip ==
    (Decrypted /\ encLast.type \in AlgebraicTypes) => encLast.back = encLast.value

C2_Witness ==
    /\ Decrypted
    /\ encLast.type \in AlgebraicTypes
    /\ encLast.out # encLast.value
    /\ encLast.back = encLast.value

----------------------------------------------------------------------------
(* Orchestrator: properties *)

\* the positions of the request that hold PII
PiiPositions == {i \in 1..Len(request) : request[i].type # "NONE"}

\* the encryption of the PII at position i under the cycle's keys
ProtectedAt(i) ==
    encryptFPE(request[i].value, request[i].type, cipherKeys[request[i].type])

\* t is the request with every PII value replaced by its encryption
FullyProtected(t) ==
    /\ Len(t) = Len(request)
    /\ \A i \in 1..Len(request) :
          IF i \in PiiPositions
          THEN t[i] = ProtectedAt(i) /\ t[i] # request[i].value
          ELSE t[i] = request[i].value

\* C1: a cycle that fails before the external transmission (the detector
\* throws, a cipher key is missing) ends in FAILED with nothing sent to the
\* external LLM, and whatever is ever sent is the fully protected text:
\* never the original text, never a partially protected one
C1_NothingUnprotectedSent ==
    /\ failedAt \in {"RECEIVED", "DETECTED"} => (stage = "FAILED" /\ external = {})
    /\ \A t \in external : FullyProtected(t)

C1_Witness ==
    /\ stage = "FAILED"
    /\ failedAt = "DETECTED"
    /\ mapping # {}
    /\ protectedText # TextOf(request)
    /\ ~FullyProtected(protectedText)
    /\ external = {}

Restored == stage \in {"ROLE_FILTERED", "DELIVERED"}

\* the original values the mapping holds for a protected value
OriginalsOf(value) == {m.original : m \in Lookup(mapping, value)}

\* their masked forms under the masking policy of their entity type
MaskedFormsOf(value) ==
    {MaskValue(m.original, m.type, MaskingPolicy(m.type)) :
        m \in Lookup(mapping, value)}

\* C9: in the restored text every protected value of the response that is
\* in the mapping is replaced by the original value the mapping holds for it
\* when the role's phiAccess is full, by the masked form of that original
\* value when it is masked, and is left protected when it is none; every PII
\* value of the request is restored this way, so under the default policy a
\* doctor gets original data and a nurse masked data
C9_RestoredByAccess ==
    Restored =>
        /\ \A i \in 1..Len(response) :
              Lookup(mapping, response[i]) # {} =>
                 /\ roleBasedAccess[requestRole].phiAccess = "full"
                       => final[i] \in OriginalsOf(response[i])
                 /\ roleBasedAccess[requestRole].phiAccess = "masked"
                       => final[i] \in MaskedFormsOf(response[i])
                 /\ roleBasedAccess[requestRole].phiAccess = "none"
                       => final[i] = response[i]
        /\ \A i \in PiiPositions :
              /\ response[i] = ProtectedAt(i)
              /\ request[i].value \in OriginalsOf(response[i])
        /\ (roleBasedAccess = DefaultRoleBasedAccess /\ requestRole = "doctor")
              => \A i \in PiiPositions :
                    final[i] \in OriginalsOf(response[i]) /\ final[i] # response[i]
        /\ (roleBasedAccess = DefaultRoleBasedAccess /\ requestRole = "nurse")
              => \A i \in PiiPositions :
                    /\ final[i] \in MaskedFormsOf(response[i])
                    /\ final[i] \notin OriginalsOf(response[i])
                    /\ final[i] # response[i]

C9_Witness ==
    /\ stage = "DELIVERED"
    /\ roleBasedAccess = DefaultRoleBasedAccess
    /\ requestRole = "nurse"
    /\ Len(request) = 4
    /\ request[4].type = "PHONE"
    /\ final[4] = <<"*", "*", "*", "*", "*", "*", "*", "*", "*", "*", "3", "2", "1", "0">>
    /\ final[4] # response[4]
    /\ final[2] # request[2].value

StageOrder ==
    <<"RECEIVED", "DETECTED", "PROTECTED", "RESPONSE_RECEIVED", "ENTITIES_REMAPPED",
      "ROLE_FILTERED", "DELIVERED">>

TerminalStages == {"DELIVERED", "FAILED"}

\* a step of the cycle: the stage moves to the next stage of the order or,
\* from a stage that is not terminal, to FAILED; the text is sent once, in
\* PROTECTED, and the response is received only after it was sent; a step
\* that keeps the stage protects one more entity or is the send
StepInOrder ==
    /\ stage' # stage =>
          \/ stage \notin TerminalStages /\ stage' = "FAILED"
          \/ \E i \in 1..(Len(StageOrder) - 1) :
                stage = StageOrder[i] /\ stage' = StageOrder[i + 1]
    /\ external' # external =>
          stage = "PROTECTED" /\ stage' = "PROTECTED" /\ external = {}
    /\ (stage' # stage /\ stage' = "RESPONSE_RECEIVED") => external # {}
    /\ stage' = stage =>
          \/ /\ mapping \subseteq mapping'
             /\ Cardinality(mapping') = Cardinality(mapping) + 1
             /\ Cardinality(mapping') <= Cardinality(entities)
          \/ external = {} /\ external' # {}

\* a cycle that is not at its end has a step to take: in DETECTED an entity
\* still to protect, in every other stage the step to the next stage
HasNextStep ==
    /\ stage \in {StageOrder[i] : i \in 1..Len(StageOrder)} \cup {"FAILED"}
    /\ stage = "DETECTED" =>
          \E e \in entities : e.start \notin {m.start : m \in mapping}

NamePositions == {i \in PiiPositions : request[i].type = "PERSON"}

\* the same name has the same substitute wherever it was protected
StableSubstitutes ==
    \A m1, m2 \in mapping :
        (m1.type = "PERSON" /\ m2.type = "PERSON" /\ m1.original = m2.original)
            => m1.protected = m2.protected

FullAccess == roleBasedAccess[requestRole].phiAccess = "full"

OwnSubstitute(i) ==
    \A j \in NamePositions :
        ProtectedAt(j) = ProtectedAt(i) => request[j].value = request[i].value

----------------------------------------------------------------------------
(* SSO: properties *)

\* the call saw the state it received stored as oauth_state
StateMatched(call) == call.state # NoItem /\ call.state = call.storedState

\* C20: exchangeCodeForToken stores tokens only after the received state
\* equalled the stored oauth_state, a code verifier was found and the token
\* endpoint answered ok; with the state missing or not matching it throws
\* 'Invalid OAuth state', sends no request to the token endpoint and stores
\* no token.
C20_TokensOnlyAfterValidState ==
    /\ \A c \in 1..MaxExchanges :
          /\ calls[c].storedTokens =>
                /\ StateMatched(calls[c])
                /\ calls[c].codeVerifier # NoItem
                /\ calls[c].responseOk
          /\ (calls[c].pc # "idle" /\ ~StateMatched(calls[c])) =>
                /\ calls[c].pc = "threw"
                /\ calls[c].error = "Invalid OAuth state"
                /\ \A q \in tokenRequests : q.call # c
                /\ ~calls[c].storedTokens
    /\ storage["bart_access_token"] # NoItem =>
          \E c \in 1..MaxExchanges : calls[c].storedTokens

C20_Witness ==
    \E c, d \in 1..MaxExchanges :
        /\ calls[c].pc = "done"
        /\ calls[c].storedTokens
        /\ storage["bart_access_token"] = "at"
        /\ calls[d].error = "Invalid OAuth state"
        /\ calls[d].state # NoItem
        /\ calls[d].storedState # NoItem

\* the call reached the comparison in validateState: a state was stored and a
\* state was received
ReachedValidation(call) ==
    call.pc # "idle" /\ call.state # NoItem /\ call.storedState # NoItem

\* a call that reaches the comparison leaves no oauth_state behind, and no
\* code verifier when it goes on to the token request
RemovedOnUse ==
    \A c \in 1..MaxExchanges :
        (calls[c].pc = "idle" /\ ReachedValidation(calls'[c])) =>
            /\ storage'["oauth_state"] = NoItem
            /\ calls'[c].pc = "fetching" => storage'["oauth_code_verifier"] = NoItem

\* an attempt after one that reached the comparison, with the same code and
\* state and no new login in between, throws 'Invalid OAuth state'
SecondAttemptFails ==
    \A c, d \in 1..MaxExchanges :
        (/\ c < d
         /\ ReachedValidation(calls[c])
         /\ calls[d].pc # "idle"
         /\ calls[d].code = calls[c].code
         /\ calls[d].state = calls[c].state
         /\ calls[d].login = calls[c].login)
            => (calls[d].pc = "threw" /\ calls[d].error = "Invalid OAuth state")

\* C21: a stored OAuth state is used once: a call that reaches the comparison
\* removes oauth_state whether or not the states matched, and removes the code
\* verifier before the token request is sent; a second attempt with the same
\* code and state fails, also after the first failed at the token endpoint.
C21_StateUsedOnce == [][RemovedOnUse]_vars /\ []SecondAttemptFails

C21_Witness ==
    \E c, d \in 1..MaxExchanges :
        /\ c < d
        /\ calls[c].error = "Token exchange failed"
        /\ calls[d].code = calls[c].code
        /\ calls[d].state = calls[c].state
        /\ calls[d].login = calls[c].login
        /\ calls[d].error = "Invalid OAuth state"

----------------------------------------------------------------------------
(* Chat store: properties *)

InFlight(c) == sends[c].pc = "waiting"

\* the step that starts a call appends the user message of the call, the step
\* that ends it appends one assistant or error message, a call that ended
\* adds nothing more
OneMessagePerStep ==
    \A c \in 1..MaxSends :
        /\ (sends[c].pc = "idle" /\ sends'[c].pc = "waiting") =>
              /\ Len(messages') = Len(messages) + 1
              /\ messages'[Len(messages')].type = "user"
              /\ messages'[Len(messages')].content = sends'[c].text
        /\ (InFlight(c) /\ sends'[c].pc # "waiting") =>
              /\ sends'[c].pc = "done"
              /\ Len(messages') = Len(messages) + 1
              /\ messages'[Len(messages')].type \in {"assistant", "error"}
        /\ sends[c].pc = "done" => sends'[c].pc = "done"

QuietWhenNoneInFlight ==
    (\A c \in 1..MaxSends : ~InFlight(c)) => (isLoading = FALSE /\ status = "idle")

\* C22: every sendMessage call with non-blank text appends one user message
\* and is eventually followed by one assistant or error message for the call,
\* whatever the request came to; with no call in flight isLoading is false
\* and status is idle.
C22_OneReplyPerCall ==
    /\ [][OneMessagePerStep]_vars
    /\ []QuietWhenNoneInFlight
    /\ \A c \in 1..MaxSends : InFlight(c) ~> (sends[c].pc = "done")

C22_Witness ==
    /\ \A c \in 1..MaxSends : sends[c].pc = "done"
    /\ Len(messages) = 2 * MaxSends
    /\ messages[Len(messages)].content = "No response received from AI"

\* C23: status is one of the QUERY_STATUS values, and so is the status of
\* every stored message.
C23_StatusInQueryStatus ==
    /\ status \in QUERY_STATUS
    /\ \A i \in 1..Len(messages) : messages[i].status \in QUERY_STATUS

----------------------------------------------------------------------------
(* Masking preview: properties *)

CardMasked44 ==
    <<"4", "5", "3", "2", "-", "*", "*", "*", "*", "-", "*", "*", "*", "*", "-",
      "9", "0", "1", "2">>

SsnMaskedLast4 == <<"*", "*", "*", "-", "*", "*", "-", "6", "7", "8", "9">>

\* C5: with preserveFormat=true every separator of the input (dash, space,
\* parenthesis, slash) stands unchanged at its position in the masked output,
\* show_first_last(4,4) with mask char * turns 4532-1234-5678-9012 into
\* 4532-****-****-9012, and show_last(4) turns 123-45-6789 into ***-**-6789.
C5_SeparatorsKept ==
    pattern.preserveFormat =>
        /\ \A i \in 1..Len(Sample(entity)) :
              Sample(entity)[i] \in FormatChars =>
                  i <= Len(preview) /\ preview[i] = Sample(entity)[i]
        /\ (entity = "CREDIT_CARD"
              /\ pattern = MkPattern("show_first_last", 4, 4, "*", TRUE))
             => preview = CardMasked44
        /\ (entity = "SSN" /\ pattern = MkPattern("show_last", 0, 4, "*", TRUE))
             => preview = SsnMaskedLast4

\* C6: for every pattern with preserveFormat=true that the dashboard holds,
\* the masked output has exactly the length of the value.
C6_LengthKept ==
    pattern.preserveFormat => Len(preview) = Len(Sample(entity))

\* the text the preview counts and masks: the sample, stripped unless the
\* format is preserved
PreviewText ==
    IF pattern.preserveFormat THEN Sample(entity) ELSE StripFormat(Sample(entity))

\* out is txt with the first f and the last l characters kept and mask
\* character c in every other position
KeptFirstLast(out, txt, f, l, c) ==
    /\ Len(out) = Len(txt)
    /\ \A i \in 1..Len(txt) :
          out[i] = IF i <= f \/ i > Len(txt) - l THEN txt[i] ELSE c

\* C11: show_first(n) gives the first n characters followed by one mask
\* character for each remaining character, show_last(n) one mask character
\* for each leading character followed by the last n characters; a value of
\* n or fewer characters comes back unmasked.
C11_ShowFirstShowLast ==
    /\ pattern.type = "show_first" =>
          IF Len(PreviewText) <= pattern.showFirst
          THEN preview = PreviewText
          ELSE KeptFirstLast(preview, PreviewText, pattern.showFirst, 0,
                             pattern.maskChar)
    /\ pattern.type = "show_last" =>
          IF Len(PreviewText) <= pattern.showLast
          THEN preview = PreviewText
          ELSE KeptFirstLast(preview, PreviewText, 0, pattern.showLast,
                             pattern.maskChar)

\* C12: show_first_last(f,l) keeps the first f and the last l characters with
\* one mask character for each character in between; with f+l at or above
\* the length the value comes back unmasked; the output is never longer than
\* the input.
C12_ShowFirstLast ==
    pattern.type = "show_first_last" =>
        /\ IF pattern.showFirst + pattern.showLast >= Len(PreviewText)
           THEN preview = PreviewText
           ELSE KeptFirstLast(preview, PreviewText, pattern.showFirst,
                              pattern.showLast, pattern.maskChar)
        /\ Len(preview) <= Len(PreviewText)

EmailMaskedFirst1 ==
    <<"j", "*", "*", "*", "@", "c", "o", "m", "p", "a", "n", "y", ".", "c", "o", "m">>

\* C13: custom masking of an EMAIL splits the value at '@', keeps the first
\* showFirst characters of the local part (none when showFirst is 0), masks
\* the rest of the local part and leaves the domain unchanged;
\* john.doe@company.com with showFirst=1 and mask char * gives
\* j***@company.com.
C13_CustomEmail ==
    (entity = "EMAIL" /\ pattern.type = "custom") =>
        LET at == IndexOf(PreviewText, "@")
            localPart == SubSeq(PreviewText, 1, at - 1)
            domain == SubSeq(PreviewText, at, Len(PreviewText))
        IN  /\ Len(preview) = Len(PreviewText)
            /\ KeptFirstLast(SubSeq(preview, 1, at - 1), localPart,
                             pattern.showFirst, 0, pattern.maskChar)
            /\ SubSeq(preview, at, Len(preview)) = domain
            /\ (pattern.showFirst = 1 /\ pattern.maskChar = "*")
                  => preview = EmailMaskedFirst1

\* C14: full masking is idempotent: masking the masked value again with the
\* same full_mask pattern gives the masked value, for both preserveFormat
\* settings and every mask character.
C14_FullMaskIdempotent ==
    pattern.type = "full_mask" => MaskValue(preview, entity, pattern) = preview

IsAlphanumeric(c) == IsDigit(c) \/ IsLower(c) \/ IsUpper(c)

\* C15: with preserveFormat=false every non-alphanumeric character of the
\* input is stripped before counting and masking: the masked output holds
\* alphanumeric characters of the input and mask characters only.
C15_NoSeparators ==
    ~pattern.preserveFormat =>
        \A i \in 1..Len(preview) :
            IsAlphanumeric(preview[i]) \/ preview[i] = pattern.maskChar

\* C16: no pattern with a negative showFirst or showLast is ever held by the
\* dashboard, and so none is ever used to compute a mask.
C16_CountsNotNegative ==
    pattern.showFirst >= 0 /\ pattern.showLast >= 0

----------------------------------------------------------------------------
(* Role policy and resolver: properties *)

\* C7: the resolver answers DENIED for every entity type when the role of the
\* request is not in the role policy, as is the fallback role the chat client
\* sends when no role is stored, and for every entity type that is not among
\* the role's allowed entities, whatever the role's phiAccess level.
C7_DefaultDeny ==
    /\ \A e \in EntityTypes :
          resolveVisibility(e, UserRole(NoStoredRole), roleBasedAccess) = "DENIED"
    /\ resolved # NoQuery =>
          ((\/ resolved.role \notin DOMAIN roleBasedAccess
            \/ resolved.entityType
                  \notin roleBasedAccess[resolved.role].allowedEntities)
             => resolved.visibility = "DENIED")

\* a nurse raised to full access asks for an SSN, which is not among the
\* nurse's allowed entities, and is denied
C7_Witness ==
    /\ resolved = [entityType |-> "SSN", role |-> "nurse", visibility |-> "DENIED"]
    /\ roleBasedAccess["nurse"].phiAccess = "full"

\* C8: for a role of the policy whose canDecrypt is false and an entity type
\* the role is allowed, the resolver answers MASKED, never ORIGINAL, also when
\* the role's phiAccess level is full.
C8_NoDecryptMasked ==
    (/\ resolved # NoQuery
     /\ resolved.role \in DOMAIN roleBasedAccess
     /\ resolved.entityType \in roleBasedAccess[resolved.role].allowedEntities
     /\ ~roleBasedAccess[resolved.role].canDecrypt)
        => resolved.visibility = "MASKED"

\* a doctor with full access whose decrypt capability was switched off
C8_Witness ==
    /\ resolved = [entityType |-> "PHONE", role |-> "doctor", visibility |-> "MASKED"]
    /\ roleBasedAccess["doctor"].phiAccess = "full"
    /\ ~roleBasedAccess["doctor"].canDecrypt

\* C10: in every configuration the dashboard reaches, a role with
\* canDecrypt=true has phiAccess=full.
C10_DecryptImpliesFull ==
    \A r \in DOMAIN roleBasedAccess :
        roleBasedAccess[r].canDecrypt => roleBasedAccess[r].phiAccess = "full"

\* C25: an edit applied with updateConfig stays in the dashboard's state until
\* the user saves or resets; a sync or the initial load that completes in
\* between does not discard or overwrite it.
C25_UnsavedEditKept ==
    unsavedEdit # NoEdit =>
        roleBasedAccess[unsavedEdit.role] = unsavedEdit.permissions

----------------------------------------------------------------------------
(* Login: properties *)

\* C24: whenever an auth_token is stored, the user_role of the chat request
\* is the role of the user the login that stored the token returned; no
\* operation but login and logout changes user_role while the token stays.
C24_RoleOfTokenOwner ==
    \A user \in LoginUsers :
        chatRequest.auth_token = user.token => chatRequest.user_role = user.role

----------------------------------------------------------------------------
(* Masking as a function: properties *)

Masked == maskOutput # NotMasked

\* the text being masked: the value, without its separators when the format
\* is not preserved
TextMasked ==
    IF maskInput.pattern.preserveFormat THEN maskInput.value
    ELSE StripFormat(maskInput.value)

Unhandled ==
    \/ maskInput.pattern.type \notin PatternTypes
    \/ maskInput.pattern.type = "custom" /\ maskInput.entity # "EMAIL"

\* C26: for a pattern type that is none of show_first, show_last,
\* show_first_last and full_mask, and for custom on an entity other than
\* EMAIL, the output is the mask character once per character of the text
\* being masked.
C26_UnhandledFullyMasked ==
    (Masked /\ Unhandled) =>
        /\ Len(maskOutput) = Len(TextMasked)
        /\ \A i \in 1..Len(maskOutput) : maskOutput[i] = maskInput.pattern.maskChar

C26_Witness ==
    /\ Masked
    /\ maskInput.pattern.type = "hash"
    /\ maskInput.entity = "EMAIL"
    /\ maskInput.value = <<"a", "b", "@", "c">>
    /\ maskOutput = <<"#", "#", "#", "#">>

CustomEmailNotOneAt ==
    /\ Masked
    /\ maskInput.pattern.type = "custom"
    /\ maskInput.entity = "EMAIL"
    /\ Count(maskInput.value, "@") # 1

----------------------------------------------------------------------------
(* Chat history: properties *)

\* C28: Layout's chatHistory state is an array in every reachable state, so
\* that the next history update, which copies the previous array, succeeds.
C28_ChatHistoryIsArray == chatHistory.isArray

IdsOf(history) == {history[i].id : i \in 1..Len(history)}

OneChatPerId ==
    \A i, j \in 1..Len(storedHistory) :
        storedHistory[i].id = storedHistory[j].id => i = j

\* what a step of addOrUpdateChat or deleteChat does to the stored history
HistoryStep ==
    LET id == lastCall'.id
    IN  /\ (lastCall'.op = "addOrUpdateChat" /\ id \in IdsOf(storedHistory)) =>
              /\ Len(storedHistory') = Len(storedHistory)
              /\ \A i \in 1..Len(storedHistory) :
                    /\ storedHistory'[i].id = storedHistory[i].id
                    /\ storedHistory[i].id # id => storedHistory'[i] = storedHistory[i]
        /\ (lastCall'.op = "addOrUpdateChat" /\ id \notin IdsOf(storedHistory)) =>
              /\ Len(storedHistory') = Len(storedHistory) + 1
              /\ storedHistory'[1].id = id
              /\ Tail(storedHistory') = storedHistory
        /\ lastCall'.op = "deleteChat" =>
              /\ id \notin IdsOf(storedHistory')
              /\ IdsOf(storedHistory') = IdsOf(storedHistory) \ {id}

=============================================================================
